---- MODULE Spec2Model ----
(***************************************************************************)
(* Model of oracle/feed_stork.go: the Stork signed-price puller.           *)
(* One feed instance (storkPriceFeed) is pulled serially by its scheduler. *)
(* A pull (PullAssetPair) resolves the endpoint, dials a websocket, sends  *)
(* the subscription message, reads two frames, decodes the second one and  *)
(* converts one asset record into an oracletypes.AssetPair.                *)
(***************************************************************************)
EXTENDS Integers, Sequences, FiniteSets, TLC

VARIABLES
    feed,       \* the storkPriceFeed fields set by NewStorkPriceFeed
    dialerEnableCompression, \* websocket.DefaultDialer.EnableCompression (package global)
    pc,         \* position of the pull in PullAssetPair
    ctx,        \* the context.Context argument: "live" or "cancelled"
    conn,       \* local conn of the running pull: "nil", "open" or "closed"
    count,      \* local count of the read loop
    msgNeed,    \* local msgNeed: <<>> (nil) or <<frame>>
    inbound,    \* frames conn.ReadMessage returned to this pull, in order
    sent,       \* frames conn.WriteMessage sent in this pull, in order
    outcome,    \* how the pull ended: what the caller (or the process) sees
    dials,      \* dialer.Dial calls made by this pull
    closes,     \* conn.Close calls made by this pull
    openConns,  \* websocket connections of the process that are open
    pulls,      \* PullAssetPair calls the scheduler has made on this feed
    cfg,        \* the *StorkFeedConfig handed to NewStorkPriceFeed: <<>> or <<cfg>>
    built,      \* what NewStorkPriceFeed returned: <<>> or <<[feed, err]>>
    convIn,     \* the arguments of a ConvertDataToAssetPair call: <<>> or <<[data, assetId]>>
    convOut,    \* the result of that call: <<>> or <<AssetPair>>
    puller,     \* the pulls of several feed instances that run concurrently
    dialerAccess \* accesses of those pulls to websocket.DefaultDialer: <<instance, kind>>

\* the state of the pull of one feed
pullVars == <<feed, dialerEnableCompression, pc, ctx, conn, count, msgNeed,
              inbound, sent, outcome, dials, closes, openConns, pulls>>

\* the state of construction, of conversion and of concurrent pulls
auxVars == <<cfg, built, convIn, convOut, puller, dialerAccess>>

vars == <<feed, dialerEnableCompression, pc, ctx, conn, count, msgNeed,
          inbound, sent, outcome, dials, closes, openConns, pulls,
          cfg, built, convIn, convOut, puller, dialerAccess>>

\* no construction, conversion or concurrent pull is under way
AuxIdle ==
    /\ cfg = <<>>
    /\ built = <<>>
    /\ convIn = <<>>
    /\ convOut = <<>>
    /\ puller = <<>>
    /\ dialerAccess = {}

----------------------------------------------------------------------------
(* Bounds *)

\* longest signed_prices list of an asset record on the wire
MaxEntries == 1

\* number of pulls the scheduler makes on the feed
MaxPulls == 2

\* longest pullInterval string of a configuration
MaxIntervalLen == 3

\* longest signed_prices list handed to the converter
MaxConvEntries == 2

\* longest R or S component of a signature handed to the converter
MaxHexLen == 3

----------------------------------------------------------------------------
(* Data shapes (messageResponse, Data, SignedPrice, Signature, AssetPair) *)

\* asset identifiers that occur as tickers and as keys of the data mapping
AssetIds == {"BTCUSD", "ETHUSD"}

\* values of StorkFeedConfig.Url: one that url.Parse accepts, one it rejects
Urls == {"wss://stork/ws", ":no-scheme"}

\* strings that the code indexes or trims are sequences of one-character strings
SigGood == [R |-> <<"0", "x", "a", "b">>, S |-> <<"c", "d">>, V |-> <<"0", "x", "0", "1">>]

SigBad == [R |-> <<"0", "x", "a", "b">>, S |-> <<"z", "z">>, V |-> <<"0", "1">>]

\* the signed-price entries a provider frame is built from
SignedPrices ==
    { [PublisherKey |-> "pubA", Price |-> 100,
       TimestampedSignature |-> [Signature |-> SigGood, Timestamp |-> 7]],
      [PublisherKey |-> "pubB", Price |-> 101,
       TimestampedSignature |-> [Signature |-> SigBad, Timestamp |-> 8]] }

SeqsUpTo(S, n) == UNION { [1..k -> S] : k \in 0..n }

\* Data records (the fields the converter reads)
DataRecords == { [SignedPrices |-> sp] : sp \in SeqsUpTo(SignedPrices, MaxEntries) }

\* map[string]Data values
DataMaps == UNION { [ks -> DataRecords] : ks \in SUBSET AssetIds }

EmptyMap == [k \in {} |-> k]

\* an inbound websocket frame: bytes that are JSON of a messageResponse or not
Frames == { [wellFormed |-> TRUE, data |-> d] : d \in DataMaps }
            \cup { [wellFormed |-> FALSE, data |-> EmptyMap] }

\* oracletypes.AssetPair{}
ZeroAssetPair == [AssetId |-> "", SignedPrices |-> <<>>]

----------------------------------------------------------------------------
(* Pure functions *)

\* strings.TrimLeft(s, "0x"): drops every leading "0" and "x"
RECURSIVE TrimLeft0x(_)
TrimLeft0x(s) ==
    IF s # <<>> /\ s[1] \in {"0", "x"} THEN TrimLeft0x(Tail(s)) ELSE s

\* strings.TrimPrefix(s, "0x")
TrimPrefix0x(s) ==
    IF Len(s) >= 2 /\ s[1] = "0" /\ s[2] = "x" THEN SubSeq(s, 3, Len(s)) ELSE s

CombineSignatureToString(signature) ==
    TrimPrefix0x(signature.R) \o TrimPrefix0x(signature.S) \o TrimPrefix0x(signature.V)

\* encoding/hex reverseHexTable: the value of a hex digit, 255 for any other byte
HexVal(c) ==
    CASE c = "0" -> 0  [] c = "1" -> 1  [] c = "2" -> 2  [] c = "3" -> 3
      [] c = "4" -> 4  [] c = "5" -> 5  [] c = "6" -> 6  [] c = "7" -> 7
      [] c = "8" -> 8  [] c = "9" -> 9
      [] c \in {"a", "A"} -> 10 [] c \in {"b", "B"} -> 11
      [] c \in {"c", "C"} -> 12 [] c \in {"d", "D"} -> 13
      [] c \in {"e", "E"} -> 14 [] c \in {"f", "F"} -> 15
      [] OTHER -> 255

\* encoding/hex Decode: the bytes decoded before the first error, and the error
RECURSIVE HexDecodeFrom(_, _)
HexDecodeFrom(src, j) ==
    IF j <= Len(src)
    THEN IF HexVal(src[j - 1]) > 15 \/ HexVal(src[j]) > 15
         THEN [bytes |-> <<>>, err |-> "InvalidByteError"]
         ELSE LET rest == HexDecodeFrom(src, j + 2)
              IN  [bytes |-> <<HexVal(src[j - 1]) * 16 + HexVal(src[j])>> \o rest.bytes,
                   err |-> rest.err]
    ELSE IF Len(src) % 2 = 1
         THEN [bytes |-> <<>>,
               err |-> IF HexVal(src[j - 1]) > 15 THEN "InvalidByteError" ELSE "ErrLength"]
         ELSE [bytes |-> <<>>, err |-> "nil"]

HexDecodeString(s) == HexDecodeFrom(s, 2)

\* common.Hex2Bytes: h, _ := hex.DecodeString(str); return h
Hex2Bytes(str) == HexDecodeString(str).bytes

ConvertSignedPrice(signeds) ==
    [Signature    |-> Hex2Bytes(CombineSignatureToString(signeds.TimestampedSignature.Signature)),
     PublisherKey |-> signeds.PublisherKey,
     Timestamp    |-> signeds.TimestampedSignature.Timestamp,
     Price        |-> signeds.Price]

\* a converter that prepends each entry instead of appending it
ConvertDataToAssetPairPrepend(data, assetId) ==
    [AssetId      |-> assetId,
     SignedPrices |-> [i \in 1..Len(data.SignedPrices) |->
                          ConvertSignedPrice(
                              data.SignedPrices[Len(data.SignedPrices) + 1 - i])]]

ConvertDataToAssetPair(data, assetId) ==
    [AssetId      |-> assetId,
     SignedPrices |-> [i \in 1..Len(data.SignedPrices) |->
                          ConvertSignedPrice(data.SignedPrices[i])]]

\* url.Parse(f.url): nil error or not
UrlParseOK(u) == u # ":no-scheme"

\* json.Unmarshal(msgNeed, &msgResp)
Unmarshal(frame) ==
    IF frame.wellFormed
    THEN [Data |-> frame.data, err |-> "nil"]
    ELSE [Data |-> EmptyMap, err |-> "SyntaxError"]

----------------------------------------------------------------------------
(* State machine *)

NoOutcome == [kind |-> "none", line |-> 0, assetPairs |-> ZeroAssetPair, err |-> "nil"]

\* return <assetPairs>, <err> at the given source line
Returned(line, assetPairs, err) ==
    [kind |-> "returned", line |-> line, assetPairs |-> assetPairs, err |-> err]

\* log.Fatal at the given source line: the process exits, deferred calls do not run
Exited(line) ==
    [kind |-> "exited", line |-> line, assetPairs |-> ZeroAssetPair, err |-> "nil"]

\* run-time panic at the given source line: deferred calls run, then the panic propagates
Panicked(line) ==
    [kind |-> "panicked", line |-> line, assetPairs |-> ZeroAssetPair, err |-> "nil"]

\* the storkPriceFeed built by NewStorkPriceFeed from a valid configuration
\* (interval in milliseconds, oracleType as its enum number)
Feeds ==
    { [ticker |-> t, providerName |-> "stork", interval |-> 60000, url |-> u,
       header |-> "user:pass", message |-> "subscribe", oracleType |-> 2] :
      t \in AssetIds, u \in Urls }

PullInit ==
    /\ feed \in Feeds
    /\ dialerEnableCompression = FALSE
    /\ pc = "idle"
    /\ ctx = "live"
    /\ conn = "nil"
    /\ count = 0
    /\ msgNeed = <<>>
    /\ inbound = <<>>
    /\ sent = <<>>
    /\ outcome = NoOutcome
    /\ dials = 0
    /\ closes = 0
    /\ openConns = 0
    /\ pulls = 0

Init ==
    /\ PullInit
    /\ AuxIdle

\* the scheduler calls PullAssetPair(ctx); the first pull, or the next one after a return
StartPull ==
    /\ pc = "idle" \/ (pc = "done" /\ outcome.kind = "returned")
    /\ pulls < MaxPulls
    /\ pulls' = pulls + 1
    /\ pc' = "parse"
    /\ ctx' \in {"live", "cancelled"}
    /\ conn' = "nil"
    /\ count' = 0
    /\ msgNeed' = <<>>
    /\ inbound' = <<>>
    /\ sent' = <<>>
    /\ outcome' = NoOutcome
    /\ dials' = 0
    /\ closes' = 0
    /\ UNCHANGED <<feed, dialerEnableCompression, openConns>>
    /\ UNCHANGED auxVars

\* the caller cancels ctx while the pull has not yet received its second frame
Cancel ==
    /\ pc \in {"parse", "dial", "write", "read"}
    /\ ctx = "live"
    /\ ctx' = "cancelled"
    /\ UNCHANGED <<feed, dialerEnableCompression, pc, conn, count, msgNeed, inbound,
                   sent, outcome, dials, closes, openConns, pulls>>
    /\ UNCHANGED auxVars

\* a pull that returns without closing its connection
DeferredCloseLeak ==
    /\ conn' = conn
    /\ closes' = closes
    /\ openConns' = openConns

\* the deferred conn.Close() of line 166, run when the function returns or panics
DeferredClose ==
    /\ conn' = "closed"
    /\ closes' = closes + 1
    /\ openConns' = openConns - 1

\* lines 143-152: url.Parse, the Authorization header, the dialer
ParseURL ==
    /\ pc = "parse"
    /\ IF UrlParseOK(feed.url)
       THEN /\ pc' = "dial"
            /\ dialerEnableCompression' = TRUE
            /\ outcome' = outcome
       ELSE /\ pc' = "done"
            /\ outcome' = Exited(145)
            /\ dialerEnableCompression' = dialerEnableCompression
    /\ UNCHANGED <<feed, ctx, conn, count, msgNeed, inbound, sent, dials, closes, openConns,
                   pulls>>
    /\ UNCHANGED auxVars

\* lines 155-168: dialer.Dial and the handshake
Dial ==
    /\ pc = "dial"
    /\ dials' = dials + 1
    /\ \E ok \in BOOLEAN :
         IF ok
         THEN /\ conn' = "open"
              /\ openConns' = openConns + 1
              /\ pc' = "write"
              /\ outcome' = outcome
         ELSE /\ conn' = "nil"
              /\ openConns' = openConns
              /\ pc' = "done"
              /\ outcome' = Exited(163)
    /\ UNCHANGED <<feed, dialerEnableCompression, ctx, count, msgNeed, inbound, sent, closes,
                   pulls>>
    /\ UNCHANGED auxVars

\* a write whose error is ignored: the pull goes on to read without having sent
WriteIgnoreError ==
    /\ pc = "write"
    /\ \E ok \in BOOLEAN :
         /\ sent' = IF ok THEN Append(sent, feed.message) ELSE sent
         /\ pc' = "read"
         /\ outcome' = outcome
    /\ count' = 0
    /\ msgNeed' = <<>>
    /\ UNCHANGED <<feed, dialerEnableCompression, ctx, conn, inbound, dials, closes, openConns,
                   pulls>>
    /\ UNCHANGED auxVars

\* lines 170-177: conn.WriteMessage(websocket.TextMessage, []byte(f.message))
Write ==
    /\ pc = "write"
    /\ \E ok \in BOOLEAN :
         IF ok
         THEN /\ sent' = Append(sent, feed.message)
              /\ pc' = "read"
              /\ outcome' = outcome
         ELSE /\ sent' = sent
              /\ pc' = "done"
              /\ outcome' = Exited(172)
    /\ count' = 0
    /\ msgNeed' = <<>>
    /\ UNCHANGED <<feed, dialerEnableCompression, ctx, conn, inbound, dials, closes, openConns,
                   pulls>>
    /\ UNCHANGED auxVars

\* a read loop that keeps the first frame instead of the last one
ReadStoreKeepFirst(message) ==
    /\ msgNeed' = IF count = 0 THEN <<message>> ELSE msgNeed
    /\ count' = count + 1

\* the body of the read loop when conn.ReadMessage returns a frame
ReadStore(message) ==
    /\ msgNeed' = <<message>>
    /\ count' = count + 1

\* lines 178-187: one iteration of for count < 2 { conn.ReadMessage() ... }
Read ==
    /\ pc = "read"
    /\ count < 2
    /\ \/ \E message \in Frames :
            /\ ReadStore(message)
            /\ inbound' = Append(inbound, message)
            /\ pc' = IF count' < 2 THEN "read" ELSE "decode"
            /\ UNCHANGED <<conn, closes, openConns, outcome>>
       \/ /\ outcome' = Returned(182, ZeroAssetPair, "nil")
          /\ DeferredClose
          /\ pc' = "done"
          /\ UNCHANGED <<msgNeed, count, inbound>>
    /\ UNCHANGED <<feed, dialerEnableCompression, ctx, sent, dials, pulls>>
    /\ UNCHANGED auxVars

\* lines 195-199: the key the code takes as assetIds[0]
SelectAssetIds(Data) == DOMAIN Data

\* a decode step that remembers the selected asset in the feed's ticker
DecodeAndConvertCachesTicker ==
    /\ pc = "decode"
    /\ LET r == Unmarshal(msgNeed[1]) IN
         IF r.err # "nil"
         THEN outcome' = Returned(193, ZeroAssetPair, "nil") /\ feed' = feed
         ELSE IF SelectAssetIds(r.Data) = {}
              THEN outcome' = Panicked(199) /\ feed' = feed
              ELSE \E assetId \in SelectAssetIds(r.Data) :
                     /\ outcome' = Returned(201, ConvertDataToAssetPair(r.Data[assetId], assetId), "nil")
                     /\ feed' = [feed EXCEPT !.ticker = assetId]
    /\ DeferredClose
    /\ pc' = "done"
    /\ UNCHANGED <<dialerEnableCompression, ctx, count, msgNeed, inbound, sent, dials, pulls>>
    /\ UNCHANGED auxVars

\* lines 189-201: json.Unmarshal, key selection, conversion
DecodeAndConvert ==
    /\ pc = "decode"
    /\ LET r == Unmarshal(msgNeed[1]) IN
         IF r.err # "nil"
         THEN outcome' = Returned(193, ZeroAssetPair, "nil")
         ELSE IF SelectAssetIds(r.Data) = {}
              THEN outcome' = Panicked(199)
              ELSE \E assetId \in SelectAssetIds(r.Data) :
                     outcome' = Returned(201, ConvertDataToAssetPair(r.Data[assetId], assetId), "nil")
    /\ DeferredClose
    /\ pc' = "done"
    /\ UNCHANGED <<feed, dialerEnableCompression, ctx, count, msgNeed, inbound, sent, dials,
                   pulls>>
    /\ UNCHANGED auxVars

Next ==
    \/ StartPull
    \/ Cancel
    \/ ParseURL
    \/ Dial
    \/ Write
    \/ Read
    \/ DecodeAndConvert

Spec == Init /\ [][Next]_vars

----------------------------------------------------------------------------
(* Construction: NewStorkPriceFeed and the accessors *)

\* the characters pullInterval strings are made of
IntervalAlphabet == {"0", "1", "5", "s", "m", "-"}

\* the pullInterval strings of the configurations
IntervalStrings == SeqsUpTo(IntervalAlphabet, MaxIntervalLen)

IsDigit(c) == c \in {"0", "1", "2", "3", "4", "5", "6", "7", "8", "9"}

\* time.ParseDuration unitMap, in milliseconds; 0 for an unknown unit
UnitMap(u) ==
    CASE u = <<"m", "s">> -> 1
      [] u = <<"s">> -> 1000
      [] u = <<"m">> -> 60000
      [] u = <<"h">> -> 3600000
      [] OTHER -> 0

\* the length of the longest prefix of s made of digits (digits = TRUE) or of
\* unit characters (digits = FALSE)
RECURSIVE PrefixLen(_, _)
PrefixLen(s, digits) ==
    IF s = <<>> \/ IsDigit(s[1]) # digits
    THEN 0
    ELSE 1 + PrefixLen(Tail(s), digits)

\* the value of a string of decimal digits
RECURSIVE DecimalValue(_)
DecimalValue(s) ==
    IF s = <<>> THEN 0 ELSE DecimalValue(SubSeq(s, 1, Len(s) - 1)) * 10 + HexVal(s[Len(s)])

\* the loop of time.ParseDuration over the <number><unit> terms of s
RECURSIVE ParseTerms(_)
ParseTerms(s) ==
    IF s = <<>>
    THEN [d |-> 0, err |-> "nil"]
    ELSE LET n    == PrefixLen(s, TRUE)
             rest == SubSeq(s, n + 1, Len(s))
             i    == PrefixLen(rest, FALSE)
             u    == SubSeq(rest, 1, i)
         IN  IF n = 0 THEN [d |-> 0, err |-> "invalid duration"]
             ELSE IF i = 0 THEN [d |-> 0, err |-> "missing unit"]
             ELSE IF UnitMap(u) = 0 THEN [d |-> 0, err |-> "unknown unit"]
             ELSE LET r == ParseTerms(SubSeq(rest, i + 1, Len(rest)))
                  IN  IF r.err # "nil" THEN r
                      ELSE [d |-> DecimalValue(SubSeq(s, 1, n)) * UnitMap(u) + r.d,
                            err |-> "nil"]

\* time.ParseDuration(s): a duration in milliseconds, or an error
ParseDuration(s) ==
    LET signed == s # <<>> /\ s[1] \in {"-", "+"}
        neg    == s # <<>> /\ s[1] = "-"
        body   == IF signed THEN Tail(s) ELSE s
    IN  IF body = <<"0">> THEN [d |-> 0, err |-> "nil"]
        ELSE IF body = <<>> THEN [d |-> 0, err |-> "invalid duration"]
        ELSE LET r == ParseTerms(body)
             IN  IF r.err # "nil" THEN r
                 ELSE [d |-> IF neg THEN 0 - r.d ELSE r.d, err |-> "nil"]

\* errors.Wrapf(err, ...): nil when err is nil
Wrapf(err, message) == IF err = "nil" THEN "nil" ELSE message

\* the names of oracletypes.OracleType_value
OracleTypeNames ==
    {"Unspecified", "Band", "PriceFeed", "Coinbase", "Chainlink", "Razor", "Dia",
     "API3", "Uma", "Pyth", "BandIBC", "Provider", "Stork"}

\* oracletypes.OracleType_value[name]
OracleType_value(name) ==
    CASE name = "Unspecified" -> 0 [] name = "Band" -> 1 [] name = "PriceFeed" -> 2
      [] name = "Coinbase" -> 3 [] name = "Chainlink" -> 4 [] name = "Razor" -> 5
      [] name = "Dia" -> 6 [] name = "API3" -> 7 [] name = "Uma" -> 8
      [] name = "Pyth" -> 9 [] name = "BandIBC" -> 10 [] name = "Provider" -> 11
      [] name = "Stork" -> 12

\* oracletypes.OracleType_PriceFeed
OracleType_PriceFeed == 2

\* oracletypes.OracleType_Stork
OracleType_Stork == 12

\* the oracleType strings of the configurations
OracleTypeStrings == OracleTypeNames \cup {"", "NoSuchOracle"}

\* the *StorkFeedConfig values handed to NewStorkPriceFeed
Configs ==
    { [ProviderName |-> "stork", Ticker |-> "BTCUSD", PullInterval |-> i,
       Url |-> "wss://stork/ws", Header |-> "user:pass", Message |-> "subscribe",
       OracleType |-> o] : i \in IntervalStrings, o \in OracleTypeStrings }

\* the (PricePuller, error) pair NewStorkPriceFeed returns
NewResult(feedOrNil, err) == [feed |-> feedOrNil, err |-> err]

\* lines 65-79: the pull interval of the configuration
NewPullInterval(c) ==
    IF Len(c.PullInterval) > 0
    THEN LET p == ParseDuration(c.PullInterval)
         IN  IF p.err # "nil"
             THEN [interval |-> 0, returns |-> TRUE,
                   err |-> Wrapf(p.err, "failed to parse pull interval")]
             ELSE IF p.d < 1000
                  THEN [interval |-> 0, returns |-> TRUE,
                        err |-> Wrapf(p.err, "failed to parse pull interval (minimum)")]
                  ELSE [interval |-> p.d, returns |-> FALSE, err |-> "nil"]
    ELSE [interval |-> 60000, returns |-> FALSE, err |-> "nil"]

\* lines 81-91: the oracle type of the configuration
NewOracleType(c) ==
    IF c.OracleType = ""
    THEN [oracleType |-> OracleType_PriceFeed, returns |-> FALSE, err |-> "nil"]
    ELSE IF c.OracleType \notin OracleTypeNames
         THEN [oracleType |-> 0, returns |-> TRUE, err |-> "oracle type does not exist"]
         ELSE [oracleType |-> OracleType_value(c.OracleType), returns |-> FALSE, err |-> "nil"]

NewStorkPriceFeed(c) ==
    LET pi == NewPullInterval(c)
        ot == NewOracleType(c)
    IN  IF pi.returns THEN NewResult(<<>>, pi.err)
        ELSE IF ot.returns THEN NewResult(<<>>, ot.err)
        ELSE NewResult(<<[ticker |-> c.Ticker, providerName |-> c.ProviderName,
                          interval |-> pi.interval, url |-> c.Url, header |-> c.Header,
                          message |-> c.Message, oracleType |-> ot.oracleType]>>, "nil")

\* storkPriceFeed.Interval
Interval(f) == f.interval

\* storkPriceFeed.OracleType
OracleType(f) == OracleType_Stork

\* the pull variables while no pull is under way
PullQuiet ==
    /\ PullInit
    /\ feed = [ticker |-> "BTCUSD", providerName |-> "stork", interval |-> 60000,
               url |-> "wss://stork/ws", header |-> "user:pass", message |-> "subscribe",
               oracleType |-> 2]

InitNew ==
    /\ PullQuiet
    /\ cfg \in { <<c>> : c \in Configs }
    /\ built = <<>>
    /\ convIn = <<>>
    /\ convOut = <<>>
    /\ puller = <<>>
    /\ dialerAccess = {}

\* the process calls NewStorkPriceFeed(cfg)
Construct ==
    /\ cfg # <<>>
    /\ built = <<>>
    /\ built' = <<NewStorkPriceFeed(cfg[1])>>
    /\ UNCHANGED <<cfg, convIn, convOut, puller, dialerAccess>>
    /\ UNCHANGED pullVars

NextNew == Construct

SpecNew == InitNew /\ [][NextNew]_vars

----------------------------------------------------------------------------
(* Conversion: ConvertDataToAssetPair on its own *)

\* the signature of the example {r: "0xAB", s: "CD", v: "0x01"}
SigExample == [R |-> <<"0", "x", "A", "B">>, S |-> <<"C", "D">>, V |-> <<"0", "x", "0", "1">>]

\* the characters R and S components are made of
HexAlphabet == {"0", "x", "a"}

\* the R and S components handed to the converter
HexStrings == SeqsUpTo(HexAlphabet, MaxHexLen)

\* the V components handed to the converter
VStrings == { <<>>, <<"a">>, <<"x">>, <<"0", "x", "0", "1">> }

\* the signatures handed to the converter
Signatures ==
    { [R |-> r, S |-> s, V |-> v] : r \in HexStrings, s \in HexStrings, v \in VStrings }
        \cup {SigGood, SigBad, SigExample}

\* a SignedPrice with the given publisher, price, signature and timestamp
SignedPriceOf(publisherKey, price, signature, timestamp) ==
    [PublisherKey |-> publisherKey, Price |-> price,
     TimestampedSignature |-> [Signature |-> signature, Timestamp |-> timestamp]]

\* the entries that lists of several signed prices are made of
ListedSignedPrices ==
    SignedPrices \cup { SignedPriceOf("pubC", 102, SigExample, 9) }

\* the Data records handed to the converter: lists of distinguishable entries,
\* and single entries with every signature
ConvData ==
    { [SignedPrices |-> sp] : sp \in SeqsUpTo(ListedSignedPrices, MaxConvEntries) }
        \cup { [SignedPrices |-> <<SignedPriceOf("pubA", 100, sig, 7)>>] : sig \in Signatures }

InitConv ==
    /\ PullQuiet
    /\ cfg = <<>>
    /\ built = <<>>
    /\ convIn \in { <<[data |-> d, assetId |-> a]>> : d \in ConvData, a \in AssetIds }
    /\ convOut = <<>>
    /\ puller = <<>>
    /\ dialerAccess = {}

\* a caller runs ConvertDataToAssetPair(data, assetId)
Convert ==
    /\ convIn # <<>>
    /\ convOut = <<>>
    /\ convOut' = <<ConvertDataToAssetPair(convIn[1].data, convIn[1].assetId)>>
    /\ UNCHANGED <<cfg, built, convIn, puller, dialerAccess>>
    /\ UNCHANGED pullVars

NextConv == Convert

SpecConv == InitConv /\ [][NextConv]_vars

----------------------------------------------------------------------------
(* Concurrent pulls of several feed instances in one process *)

\* the feed instances the scheduler pulls concurrently
Instances == {"A", "B"}

\* the frames the providers of the concurrent pulls send: no signed prices
ConcFrames ==
    { f \in Frames : \A k \in DOMAIN f.data : f.data[k].SignedPrices = <<>> }

\* the pull variables that concurrent pulls leave alone
pullOwn == <<feed, pc, ctx, conn, count, msgNeed, inbound, sent, outcome, dials, closes,
             openConns, pulls>>

\* an instance before its pull: its feed and the locals of PullAssetPair
IdlePuller(f) ==
    [feed |-> f, pc |-> "idle", conn |-> "nil", count |-> 0, msgNeed |-> <<>>,
     outcome |-> NoOutcome]

InitConc ==
    /\ PullQuiet
    /\ cfg = <<>>
    /\ built = <<>>
    /\ convIn = <<>>
    /\ convOut = <<>>
    /\ puller \in { [i \in Instances |-> IdlePuller(g[i])] :
                      g \in { h \in [Instances -> Feeds] :
                                h["A"].ticker = "BTCUSD" /\ h["B"].ticker = "ETHUSD" } }
    /\ dialerAccess = {}

\* log.Fatal of any pull has ended the process
ProcessExited == \E j \in Instances : puller[j].outcome.kind = "exited"

\* instance i is at the given position and the process is running
At(i, position) == puller[i].pc = position /\ ~ProcessExited

\* the scheduler calls PullAssetPair on instance i
CStartPull(i) ==
    /\ At(i, "idle")
    /\ puller' = [puller EXCEPT ![i].pc = "parse"]
    /\ UNCHANGED <<cfg, built, convIn, convOut, dialerAccess, dialerEnableCompression>>
    /\ UNCHANGED pullOwn

\* lines 143-152 on instance i: dialer.EnableCompression = true is a write to
\* the package-level websocket.DefaultDialer
CParseURL(i) ==
    /\ At(i, "parse")
    /\ IF UrlParseOK(puller[i].feed.url)
       THEN /\ puller' = [puller EXCEPT ![i].pc = "dial"]
            /\ dialerEnableCompression' = TRUE
            /\ dialerAccess' = dialerAccess \cup {<<i, "write">>}
       ELSE /\ puller' = [puller EXCEPT ![i].pc = "done", ![i].outcome = Exited(145)]
            /\ UNCHANGED <<dialerEnableCompression, dialerAccess>>
    /\ UNCHANGED <<cfg, built, convIn, convOut>>
    /\ UNCHANGED pullOwn

\* lines 155-168 on instance i: dialer.Dial reads the settings of DefaultDialer
CDial(i) ==
    /\ At(i, "dial")
    /\ dialerAccess' = dialerAccess \cup {<<i, "read">>}
    /\ \E ok \in BOOLEAN :
         IF ok
         THEN puller' = [puller EXCEPT ![i].pc = "write", ![i].conn = "open"]
         ELSE puller' = [puller EXCEPT ![i].pc = "done", ![i].outcome = Exited(163)]
    /\ UNCHANGED <<cfg, built, convIn, convOut, dialerEnableCompression>>
    /\ UNCHANGED pullOwn

\* lines 170-177 on instance i
CWrite(i) ==
    /\ At(i, "write")
    /\ \E ok \in BOOLEAN :
         IF ok
         THEN puller' = [puller EXCEPT ![i].pc = "read", ![i].count = 0]
         ELSE puller' = [puller EXCEPT ![i].pc = "done", ![i].outcome = Exited(172)]
    /\ UNCHANGED <<cfg, built, convIn, convOut, dialerAccess, dialerEnableCompression>>
    /\ UNCHANGED pullOwn

\* lines 178-187 on instance i
CRead(i) ==
    /\ At(i, "read")
    /\ puller[i].count < 2
    /\ \/ \E message \in ConcFrames :
            puller' = [puller EXCEPT ![i].msgNeed = <<message>>,
                                     ![i].count = @ + 1,
                                     ![i].pc = IF puller[i].count + 1 < 2 THEN "read"
                                               ELSE "decode"]
       \/ puller' = [puller EXCEPT ![i].pc = "done", ![i].conn = "closed",
                                   ![i].outcome = Returned(182, ZeroAssetPair, "nil")]
    /\ UNCHANGED <<cfg, built, convIn, convOut, dialerAccess, dialerEnableCompression>>
    /\ UNCHANGED pullOwn

\* lines 189-201 on instance i
CDecodeAndConvert(i) ==
    /\ At(i, "decode")
    /\ LET r == Unmarshal(puller[i].msgNeed[1]) IN
         \E o \in IF r.err # "nil" THEN { Returned(193, ZeroAssetPair, "nil") }
                  ELSE IF SelectAssetIds(r.Data) = {} THEN { Panicked(199) }
                  ELSE { Returned(201, ConvertDataToAssetPair(r.Data[assetId], assetId), "nil") :
                            assetId \in SelectAssetIds(r.Data) } :
            puller' = [puller EXCEPT ![i].pc = "done", ![i].conn = "closed",
                                     ![i].outcome = o]
    /\ UNCHANGED <<cfg, built, convIn, convOut, dialerAccess, dialerEnableCompression>>
    /\ UNCHANGED pullOwn

NextConc ==
    \E i \in Instances :
        \/ CStartPull(i)
        \/ CParseURL(i)
        \/ CDial(i)
        \/ CWrite(i)
        \/ CRead(i)
        \/ CDecodeAndConvert(i)

SpecConc == InitConc /\ [][NextConc]_vars

----------------------------------------------------------------------------
(* Properties *)

\* the pull is over: it returned, the process exited, or it panicked
PullEnded == pc = "done"

\* the pull returned to the scheduler
PullReturned == pc = "done" /\ outcome.kind = "returned"

\* two frames arrived and the second one decodes to an envelope
EnvelopeDecoded == Len(inbound) = 2 /\ Unmarshal(inbound[2]).err = "nil"

\* the data mapping of the decoded envelope
EnvelopeData == Unmarshal(inbound[2]).Data

\* the pull met one of the failure points: bad endpoint, dial, write, read,
\* decode, or an empty data mapping
PullFailed == PullEnded /\ ~(EnvelopeDecoded /\ DOMAIN EnvelopeData # {})

\* a pull that returned an AssetPair to the scheduler
SuccessfulPull == PullReturned /\ outcome.assetPairs # ZeroAssetPair

\* C1: every pull that meets a failure point ends by returning a non-nil error:
\* it does not terminate the process, and it does not return the zero-value
\* AssetPair together with a nil error.
C1_FailureReturnsError ==
    /\ PullFailed => (outcome.kind = "returned" /\ outcome.err # "nil")
    /\ (PullReturned /\ outcome.assetPairs = ZeroAssetPair) => outcome.err # "nil"

\* C2: a pull that opened a connection never ends, by return or otherwise,
\* with that connection still open.
C2_ConnectionReleased ==
    (PullEnded /\ conn # "nil") => (conn = "closed" /\ openConns = 0)

\* C3 as stated: every pull opens exactly one connection and has closed it
\* when it ends, so that no connection is open between pulls.
C3_ExactlyOneConnection ==
    PullEnded => (dials = 1 /\ conn = "closed" /\ closes = 1 /\ openConns = 0)

\* C3 as amended: every pull dials at most once, opens at most one connection
\* and sends on it at most once; the only connection that can be open is the
\* one of the running pull; a pull that hands control back to its caller (by
\* return or by panic) has closed, exactly once, the connection it opened, so
\* no connection is open when the next pull starts.
C3_AtMostOneConnection ==
    /\ dials <= 1
    /\ Len(sent) <= 1
    /\ conn # "nil" => dials = 1
    /\ openConns = (IF conn = "open" THEN 1 ELSE 0)
    /\ (PullEnded /\ outcome.kind \in {"returned", "panicked"}) =>
           (conn # "open" /\ closes = (IF conn = "closed" THEN 1 ELSE 0) /\ openConns = 0)
    /\ pc \in {"idle", "parse", "dial"} => openConns = 0

\* a second pull has returned after opening and closing its own connection
C3_Witness ==
    /\ pulls = 2
    /\ PullReturned
    /\ dials = 1
    /\ closes = 1
    /\ Len(sent) = 1

\* C4: a successful pull has read exactly two frames, the payload handed to
\* the decoder is the second frame, the returned AssetPair is the conversion
\* of a record of the second frame, and no pull reads a third frame.
C4_SecondFrameIsPayload ==
    /\ Len(inbound) <= 2
    /\ count = Len(inbound)
    /\ pc = "decode" => (Len(inbound) = 2 /\ msgNeed = <<inbound[2]>>)
    /\ SuccessfulPull =>
          /\ Len(inbound) = 2
          /\ msgNeed = <<inbound[2]>>
          /\ EnvelopeDecoded
          /\ \E assetId \in DOMAIN EnvelopeData :
                outcome.assetPairs = ConvertDataToAssetPair(EnvelopeData[assetId], assetId)

\* a successful pull whose first frame was a different data envelope
C4_Witness ==
    /\ SuccessfulPull
    /\ inbound[1] # inbound[2]
    /\ inbound[1].wellFormed
    /\ DOMAIN inbound[1].data # {}
    /\ \A assetId \in DOMAIN inbound[1].data :
          outcome.assetPairs # ConvertDataToAssetPair(inbound[1].data[assetId], assetId)

\* C5: a pull whose handshake fails returns a ConnectionError with the
\* zero-value AssetPair, leaves no connection open and closes nothing.
C5_HandshakeFailureReturnsError ==
    (PullEnded /\ dials = 1 /\ conn = "nil") =>
        /\ outcome.kind = "returned"
        /\ outcome.err = "ConnectionError"
        /\ outcome.assetPairs = ZeroAssetPair
        /\ openConns = 0
        /\ closes = 0

\* C6: a pull whose second frame decodes to an envelope with an empty data
\* mapping returns a ProtocolError; it does not panic.
C6_EmptyEnvelopeReturnsError ==
    (PullEnded /\ EnvelopeDecoded /\ DOMAIN EnvelopeData = {}) =>
        (outcome.kind = "returned" /\ outcome.err = "ProtocolError")

\* C7: when the data mapping holds several asset identifiers, one of them the
\* configured ticker, every pull returns the conversion of the ticker's record.
C7_SelectsTicker ==
    (PullEnded /\ EnvelopeDecoded /\ Cardinality(DOMAIN EnvelopeData) > 1
        /\ feed.ticker \in DOMAIN EnvelopeData) =>
        /\ outcome.kind = "returned"
        /\ outcome.assetPairs = ConvertDataToAssetPair(EnvelopeData[feed.ticker], feed.ticker)

\* C8: when the data mapping is non-empty and has no entry for the configured
\* ticker, the pull returns a ProtocolError and no other asset's AssetPair.
C8_MissingTickerReturnsError ==
    (PullEnded /\ EnvelopeDecoded /\ DOMAIN EnvelopeData # {}
        /\ feed.ticker \notin DOMAIN EnvelopeData) =>
        /\ outcome.kind = "returned"
        /\ outcome.err = "ProtocolError"
        /\ outcome.assetPairs = ZeroAssetPair

\* the returned AssetPair is the full conversion of a record of the envelope,
\* every signature being the error-free decoding of its hex triplet
FullyConverted(assetPairs) ==
    /\ EnvelopeDecoded
    /\ assetPairs.AssetId \in DOMAIN EnvelopeData
    /\ LET entries == EnvelopeData[assetPairs.AssetId].SignedPrices IN
         /\ Len(assetPairs.SignedPrices) = Len(entries)
         /\ \A i \in 1..Len(entries) :
               LET hex == HexDecodeString(
                              CombineSignatureToString(entries[i].TimestampedSignature.Signature))
               IN  /\ hex.err = "nil"
                   /\ assetPairs.SignedPrices[i].Signature = hex.bytes
                   /\ assetPairs.SignedPrices[i].PublisherKey = entries[i].PublisherKey
                   /\ assetPairs.SignedPrices[i].Price = entries[i].Price

\* C9: an AssetPair handed to the scheduler is fully converted and comes with
\* no error: no returned AssetPair holds the empty or truncated signature of
\* an entry whose signature hex is malformed.
C9_AllOrNothing ==
    (PullReturned /\ outcome.assetPairs # ZeroAssetPair) =>
        (outcome.err = "nil" /\ FullyConverted(outcome.assetPairs))

\* C10: a pull whose context is cancelled before the second frame arrives
\* ends with a CancelledError, its connection, if opened, closed exactly once.
C10_CancelAborts ==
    (PullEnded /\ ctx = "cancelled") =>
        /\ outcome.kind = "returned"
        /\ outcome.err = "CancelledError"
        /\ conn # "nil" => (conn = "closed" /\ closes = 1)

\* C17: within a pull the steps come in the order handshake, one outbound
\* frame carrying the configured subscription payload, reads: nothing is sent
\* before the handshake has succeeded, nothing is read before the frame has
\* been sent, and the frame is sent at most once.
C17_ProtocolOrder ==
    /\ Len(sent) <= 1
    /\ Len(sent) = 1 => (conn # "nil" /\ dials = 1 /\ sent[1] = feed.message)
    /\ Len(inbound) > 0 => Len(sent) = 1
    /\ pc = "write" => (conn = "open" /\ sent = <<>> /\ inbound = <<>>)
    /\ pc \in {"read", "decode"} => (conn = "open" /\ Len(sent) = 1)

\* a pull that has connected, sent its payload and read two frames
C17_Witness ==
    /\ PullEnded
    /\ dials = 1
    /\ sent = <<feed.message>>
    /\ Len(inbound) = 2

\* C18: a pull whose read of the first or of the second frame fails returns
\* ProtocolError{read-failed}, with nothing decoded or converted.
C18_ReadFailureReturnsError ==
    (PullEnded /\ Len(sent) = 1 /\ Len(inbound) < 2) =>
        /\ outcome.kind = "returned"
        /\ outcome.err = "ProtocolError"
        /\ outcome.assetPairs = ZeroAssetPair

\* C19: a pull dials at most once, writes at most once and reads at most two
\* frames, and a pull that is over has returned to the scheduler.
C19_PullReturns ==
    /\ dials <= 1
    /\ Len(sent) <= 1
    /\ Len(inbound) <= 2
    /\ PullEnded => outcome.kind = "returned"

\* the AssetPairs a pull can return for the frames it received
PullResults(frames) ==
    IF Len(frames) = 2 /\ Unmarshal(frames[2]).err = "nil"
                       /\ DOMAIN Unmarshal(frames[2]).Data # {}
    THEN { ConvertDataToAssetPair(Unmarshal(frames[2]).Data[k], k) :
              k \in DOMAIN Unmarshal(frames[2]).Data }
    ELSE { ZeroAssetPair }

\* C20: no step of a pull changes the feed's configuration, a pull starts with
\* nothing kept from the pull before it, and what a pull returns is a result
\* of the frames that this pull received.
C20_NoCarryOver ==
    [][ /\ feed' = feed
        /\ (pc # "parse" /\ pc' = "parse") =>
              (msgNeed' = <<>> /\ inbound' = <<>> /\ sent' = <<>> /\ count' = 0
                 /\ conn' = "nil")
        /\ PullReturned' => outcome'.assetPairs \in PullResults(inbound') ]_vars

\* a second pull has returned an AssetPair of another asset than the ticker
C20_Witness ==
    /\ pulls = 2
    /\ SuccessfulPull
    /\ outcome.assetPairs.AssetId # feed.ticker

\* the interval string of the configuration is empty, or parses to 1s or more
IntervalValid(c) ==
    \/ c.PullInterval = <<>>
    \/ ParseDuration(c.PullInterval).err = "nil" /\ ParseDuration(c.PullInterval).d >= 1000

\* C12: construction returns either a feed with a nil error whose interval is
\* at least 1 second (60 seconds for the empty string, the parsed value
\* otherwise) or no feed with a non-nil error; an interval string that does
\* not parse or parses to less than 1 second takes the error outcome.
C12_IntervalOrError ==
    built # <<>> =>
        LET b == built[1]
            c == cfg[1]
        IN  /\ \/ /\ b.err = "nil"
                  /\ b.feed # <<>>
                  /\ Interval(b.feed[1]) >= 1000
                  /\ Interval(b.feed[1]) =
                        (IF c.PullInterval = <<>> THEN 60000
                         ELSE ParseDuration(c.PullInterval).d)
               \/ /\ b.feed = <<>>
                  /\ b.err # "nil"
            /\ ~IntervalValid(c) => (b.feed = <<>> /\ b.err # "nil")

\* C13: with a recognized oracle-type name construction succeeds and the
\* feed's OracleType() is the classification of that name; with the empty
\* name it is the price-feed classification; with an unrecognized name
\* construction fails with an error.
C13_OracleClassification ==
    (built # <<>> /\ IntervalValid(cfg[1])) =>
        LET b == built[1]
            c == cfg[1]
        IN  /\ c.OracleType \in OracleTypeNames =>
                  /\ b.err = "nil"
                  /\ b.feed # <<>>
                  /\ OracleType(b.feed[1]) = OracleType_value(c.OracleType)
            /\ c.OracleType = "" =>
                  /\ b.err = "nil"
                  /\ b.feed # <<>>
                  /\ OracleType(b.feed[1]) = OracleType_PriceFeed
            /\ c.OracleType \notin OracleTypeNames \cup {""} =>
                  (b.feed = <<>> /\ b.err # "nil")

\* the entries handed to the converter
ConvEntries == convIn[1].data.SignedPrices

\* C14: the converter returns as many entries as the record has, the i-th one
\* made from the i-th input entry with its publisher key, timestamp and price
\* copied, and the asset identifier is the one passed in.
C14_OrderPreserved ==
    convOut # <<>> =>
        /\ convOut[1].AssetId = convIn[1].assetId
        /\ Len(convOut[1].SignedPrices) = Len(ConvEntries)
        /\ \A i \in 1..Len(ConvEntries) :
              /\ convOut[1].SignedPrices[i].PublisherKey = ConvEntries[i].PublisherKey
              /\ convOut[1].SignedPrices[i].Timestamp =
                     ConvEntries[i].TimestampedSignature.Timestamp
              /\ convOut[1].SignedPrices[i].Price = ConvEntries[i].Price

\* two different entries have been converted
C14_Witness ==
    /\ convOut # <<>>
    /\ Len(ConvEntries) = 2
    /\ ConvEntries[1].PublisherKey # ConvEntries[2].PublisherKey
    /\ Len(convOut[1].SignedPrices) = 2

\* a component without one leading "0x"
Strip(s) ==
    IF Len(s) >= 2 /\ SubSeq(s, 1, 2) = <<"0", "x">>
    THEN [i \in 1..(Len(s) - 2) |-> s[i + 2]]
    ELSE s

\* R, S and V of a signature, each stripped, one after the other
Stripped(sig) == Strip(sig.R) \o Strip(sig.S) \o Strip(sig.V)

\* a stripped component holds a character that is no hex digit, or the
\* concatenation has odd length
MalformedHex(sig) ==
    \/ \E k \in 1..Len(Stripped(sig)) : HexVal(Stripped(sig)[k]) > 15
    \/ Len(Stripped(sig)) % 2 = 1

\* C15: no signature bytes, neither empty ones nor a decoded prefix, come out
\* of the conversion of an entry whose signature hex is malformed.
C15_MalformedHexFails ==
    convOut # <<>> =>
        \A i \in 1..Len(ConvEntries) :
            MalformedHex(ConvEntries[i].TimestampedSignature.Signature) =>
                i \notin DOMAIN convOut[1].SignedPrices

\* C16: for a signature with valid hex components the assembled bytes are
\* those of strip(R), strip(S), strip(V) in this order, each component
\* stripped of one leading "0x" on its own; {0xAB, CD, 0x01} gives AB CD 01.
C16_StripAndConcatenate ==
    convOut # <<>> =>
        \A i \in 1..Len(ConvEntries) :
            LET sig   == ConvEntries[i].TimestampedSignature.Signature
                bytes == convOut[1].SignedPrices[i].Signature
            IN  /\ ~MalformedHex(sig) =>
                      /\ Len(bytes) * 2 = Len(Stripped(sig))
                      /\ \A k \in 1..Len(bytes) :
                            bytes[k] = HexVal(Stripped(sig)[2 * k - 1]) * 16
                                         + HexVal(Stripped(sig)[2 * k])
                /\ sig = SigExample => bytes = <<171, 205, 1>>

\* a signature with a prefixed R, a bare S and valid hex has been assembled
C16_Witness ==
    /\ convOut # <<>>
    /\ Len(ConvEntries) = 1
    /\ LET sig == ConvEntries[1].TimestampedSignature.Signature
       IN  /\ ~MalformedHex(sig)
           /\ Len(sig.R) > 2 /\ Strip(sig.R) # sig.R
           /\ sig.S # <<>> /\ Strip(sig.S) = sig.S
           /\ Len(convOut[1].SignedPrices[1].Signature) >= 2

\* C11: concurrent pulls of different feed instances share no mutable state:
\* nothing that one instance's pull writes, the dialer's settings included, is
\* read or written by the pull of another instance.
C11_NoSharedMutableState ==
    \A a \in dialerAccess : \A b \in dialerAccess :
        (a[1] # b[1]) => (a[2] # "write" /\ b[2] # "write")

====
